---- MODULE Spec2Model ----
(***************************************************************************)
(* A model of the gb-rs emulator core: the PPU mode sequencer, its         *)
(* memory-mapped registers and its scanline renderer (src/src/ppu.rs) and  *)
(* the APU master control with pulse channel 1 (src/src/sound/apu.rs,      *)
(* src/src/sound/sc1.rs), and the ROM-only cartridge                       *)
(* (src/src/mbc/rom_only.rs).                                              *)
(* Each struct is one record-valued variable; each method is an operator   *)
(* from the struct (and the call's arguments) to the struct after the      *)
(* call.                                                                   *)
(***************************************************************************)
EXTENDS Integers, Naturals, Sequences, FiniteSets, TLC

VARIABLES
    ppu,        \* the PPU struct (ppu.rs:9-31)
    ret,        \* what the most recent PPU::cycle call returned
    panicked,   \* a call hit panic!/unwrap() on None: the emulator aborted
    line_ticks, \* T-cycles since LY last changed         (SpecFrame only)
    frame_ticks, \* T-cycles since VBlank was last entered (SpecFrame only)
    host,       \* T-cycles run and frames signalled since power-on
                \* (SpecBlank only)
    apu,        \* the APU struct (apu.rs:9-23) with channel 1 (sc1.rs:4-19)
    last,       \* the address of the most recent APU register write (0: none)
    cart,       \* the cartridge: the ROMOnly struct (rom_only.rs:4-6), the
                \* image it was built from, and the bus's most recent write
                \* to it and read from it since              (SpecRom only)
    env_hist    \* the volume the most recent NR12 write set and the T-cycles
                \* APU::cycle has run since             (SpecEnvelope only)

ppu_vars == <<ppu, ret, panicked, line_ticks, frame_ticks, host>>
apu_vars == <<apu, last>>
vars == <<ppu, ret, panicked, line_ticks, frame_ticks, host, apu, last, cart,
         env_hist>>

(***************************************************************************)
(* u8 arithmetic                                                           *)
(***************************************************************************)
Bit(v, k) == (v \div (2 ^ k)) % 2

And1(x, y) == x * y

Or1(x, y) == IF x + y > 0 THEN 1 ELSE 0

\* u8 `&`: the bytes' bits combined pairwise, bit k weighing 2^k
BitAnd(a, b) ==
    And1(Bit(a, 0), Bit(b, 0)) + 2 * And1(Bit(a, 1), Bit(b, 1))
    + 4 * And1(Bit(a, 2), Bit(b, 2)) + 8 * And1(Bit(a, 3), Bit(b, 3))
    + 16 * And1(Bit(a, 4), Bit(b, 4)) + 32 * And1(Bit(a, 5), Bit(b, 5))
    + 64 * And1(Bit(a, 6), Bit(b, 6)) + 128 * And1(Bit(a, 7), Bit(b, 7))

\* u8 `|`
BitOr(a, b) ==
    Or1(Bit(a, 0), Bit(b, 0)) + 2 * Or1(Bit(a, 1), Bit(b, 1))
    + 4 * Or1(Bit(a, 2), Bit(b, 2)) + 8 * Or1(Bit(a, 3), Bit(b, 3))
    + 16 * Or1(Bit(a, 4), Bit(b, 4)) + 32 * Or1(Bit(a, 5), Bit(b, 5))
    + 64 * Or1(Bit(a, 6), Bit(b, 6)) + 128 * Or1(Bit(a, 7), Bit(b, 7))

\* bitflags `contains` for a flag value f (possibly several bits)
Contains(bits, f) == BitAnd(bits, f) = f

(***************************************************************************)
(* PPU constants                                                           *)
(***************************************************************************)
SCREEN_W == 160
SCREEN_H == 144

\* Attributes (ppu.rs:48-57)
PRIORITY == 128
Y_FLIP == 64
X_FLIP == 32
PALLETE_NO_0 == 16
BANK == 8
\* every bit the Attributes bitflags type defines
ATTRIBUTES_ALL == 248

\* LCDC (ppu.rs:59-79)
LCD_ENABLE == 128
WINDOW_AREA == 64
WINDOW_ENABLE == 32
TILE_DATA_AREA == 16
TILE_MAP_AREA == 8
OBJ_SIZE == 4
OBJ_ENABLE == 2
WINDOW_PRIORITY == 1

LYC_SELECT == 64
MODE_2_SELECT == 32
MODE_1_SELECT == 16
MODE_0_SELECT == 8
LYC_EQUALS == 4
\* every bit the LCDS bitflags type defines (ppu.rs:85-93)
LCDS_ALL == 124

OAMScanCycles == 80
DrawCycles == 172
LineCycles == 456
LastVisibleLine == 143
VBlankLines == 10

\* the enum's discriminants
ModeCode(m) ==
    CASE m = "OAMScan" -> 2
      [] m = "Draw" -> 3
      [] m = "HBlank" -> 0
      [] m = "VBlank" -> 1

(***************************************************************************)
(* Inputs of the model: the bus addresses and bytes the environment uses.  *)
(* Every cell of VRAM and OAM outside these addresses keeps its            *)
(* construction value 0, because nothing writes it.                        *)
(***************************************************************************)
VramAddrs == {32768, 40959}          \* 0x8000, 0x9FFF
OamAddrs == {65183}                  \* 0xFE9F
MemVals == {0, 90}                   \* bytes written to VRAM and OAM
LcdcVals == {0, 128}                 \* LCDC: LCD off, LCD on
\* STAT: none, bit 2, each mode select, LYC select, all selects, bit 7
StatVals == {0, 4, 8, 16, 32, 64, 120, 128}
LycVals == {0, 144}
CycleSteps == {104}                  \* T-cycles per PPU::cycle call
TileAddrs == {38912}                 \* 0x9800: the first tile map entry
TileVals == {1}                      \* tile 1; as attributes, an undefined bit
\* LCDC with the LCD on: alone, with the background and the sprites
RenderLcdcVals == {128, 131}
\* the cells of a scene: the tile map entry under it (0x9820), the first
\* two rows of tile 1 (0x8010, 0x8012), and sprites 0 and 1
\* (0xFE00..0xFE07)
SceneAddrs == {38944, 32784, 32786}
SpriteAddrs == 65024..65031

\* the index PPU::read and PPU::write use for VRAM address a in bank b
RamIndex(b, a) == b * 8192 + a - 32768

\* the pixels of the frame buffer the model keeps, <<x, y>>
ScreenCols == {0, 8, 159}
ScreenRows == {0, 1, 143}
Pixels == ScreenCols \X ScreenRows

RamCells ==
    {RamIndex(b, a) :
        b \in {0, 1}, a \in VramAddrs \cup TileAddrs \cup SceneAddrs}
OamCells == {a - 65024 : a \in OamAddrs \cup SpriteAddrs}

(***************************************************************************)
(* PPU::new (ppu.rs:98-122)                                                *)
(***************************************************************************)
PPU_new(mode) ==
    [mode |-> mode,
     ppu_mode |-> "OAMScan",
     cycle_count |-> 0,
     vblanked_lines |-> 0,
     sy |-> 0, sx |-> 0, ly |-> 0, lc |-> 0, wy |-> 0, wx |-> 0,
     bgp |-> 0, op0 |-> 0, op1 |-> 1,
     lcdc |-> 0,
     lcds |-> 0,
     ram |-> [i \in RamCells |-> 0],
     ram_bank |-> 0,
     oam |-> [i \in OamCells |-> 0],
     bgprio |-> [x \in ScreenCols |-> "Normal"],
     interrupts |-> {},
     frame_buffer |-> [px \in Pixels |-> <<0, 0, 0, 0>>]]

(***************************************************************************)
(* impl Memory for PPU, read (ppu.rs:427-465).  PANIC stands for the       *)
(* panic! of an unsupported address; Ok and Panic are the two ways a call   *)
(* that changes the struct can end.                                        *)
(***************************************************************************)
PANIC == -1

IsVram(a) == a >= 32768 /\ a <= 40959      \* 0x8000..=0x9FFF
IsOam(a) == a >= 65024 /\ a <= 65183       \* 0xFE00..=0xFE9F

\* a cell of the ram / oam arrays; the cells nothing writes hold 0
RamAt(p, i) == IF i \in DOMAIN p.ram THEN p.ram[i] ELSE 0
OamAt(p, i) == IF i \in DOMAIN p.oam THEN p.oam[i] ELSE 0

read_vram(p, a) ==
    IF p.ppu_mode # "Draw"
    THEN RamAt(p, RamIndex(p.ram_bank, a))
    ELSE 255

\* a plausible slip: OAM gated like VRAM, in Draw only
read_oam_draw_only(p, a) ==
    IF p.ppu_mode # "Draw" THEN OamAt(p, a - 65024) ELSE 255

read_oam(p, a) ==
    IF p.ppu_mode # "Draw" /\ p.ppu_mode # "OAMScan"
    THEN OamAt(p, a - 65024)
    ELSE 255

read_stat(p) ==
    LET lcds == IF p.ly = p.lc THEN BitOr(p.lcds, LYC_EQUALS) ELSE p.lcds
    IN BitOr(lcds, ModeCode(p.ppu_mode))

PPU_read(p, a) ==
    CASE IsVram(a) -> read_vram(p, a)
      [] IsOam(a) -> read_oam(p, a)
      [] a = 65344 -> p.lcdc                       \* FF40
      [] a = 65345 -> read_stat(p)                 \* FF41
      [] a = 65346 -> p.sy
      [] a = 65347 -> p.sx
      [] a = 65348 -> p.ly
      [] a = 65349 -> p.lc
      [] a = 65351 -> p.bgp
      [] a = 65352 -> p.op0
      [] a = 65353 -> p.op1
      [] a = 65354 -> p.wy
      [] a = 65355 -> p.wx
      [] a = 65357 -> 0                            \* FF4D
      [] a = 65359 -> BitOr(254, p.ram_bank)       \* FF4F
      [] a >= 65376 /\ a <= 65391 -> 0             \* FF60..=FF6F
      [] OTHER -> PANIC

Ok(p) == [ppu |-> p, panic |-> FALSE]
Panic(p) == [ppu |-> p, panic |-> TRUE]

(***************************************************************************)
(* The scanline renderer (ppu.rs:211-425).  The frame buffer is kept at    *)
(* the pixels of Pixels, one <<r, g, b, a>> each, and the bgprio line      *)
(* buffer at their columns; a pixel outside them is computed the same way  *)
(* and not stored.  set_rgb (ppu.rs:220-232) puts r, g, b and 0xFF at      *)
(* offset ly * 640 + x * 4: pixel <<x, ly>>.                               *)
(***************************************************************************)
WrapAdd(a, b) == (a + b) % 256
WrapSub(a, b) == (a - b + 256) % 256

\* PPU::grey_to_l (ppu.rs:211-218)
grey_to_l(v, i) ==
    LET shade == (v \div (2 ^ (2 * i))) % 4
    IN CASE shade = 0 -> <<175, 203, 70>>
         [] shade = 1 -> <<121, 170, 109>>
         [] shade = 2 -> <<34, 111, 95>>
         [] OTHER -> <<8, 41, 85>>

\* the four bytes set_rgb stores (ppu.rs:228-231)
rgba(rgb) == <<rgb[1], rgb[2], rgb[3], 255>>

read_ram0(p, a) == RamAt(p, a - 32768)
read_ram1(p, a) == RamAt(p, a - 24576)

\* what draw_bg computes before its loop (ppu.rs:235-255), and the LCDC
\* flags the loop tests
bg_line(p) ==
    LET in_window_y == Contains(p.lcdc, WINDOW_ENABLE) /\ p.wy <= p.ly
    IN [tile_data_base |->
            IF Contains(p.lcdc, TILE_DATA_AREA) THEN 32768 ELSE 34816,
        wx |-> WrapSub(p.wx, 7),
        in_window_y |-> in_window_y,
        py |-> IF in_window_y THEN WrapSub(p.ly, p.wy)
               ELSE WrapAdd(p.sy, p.ly),
        window_map |-> IF Contains(p.lcdc, WINDOW_AREA) THEN 39936 ELSE 38912,
        bg_map |-> IF Contains(p.lcdc, TILE_MAP_AREA) THEN 39936 ELSE 38912,
        unsigned_index |-> Contains(p.lcdc, TILE_DATA_AREA)]

\* whether column x is in the window, and the pixel's x in its tile map
\* (ppu.rs:258-265)
bg_in_window(l, x) == l.in_window_y /\ x >= l.wx

bg_px(l, p, x) == IF bg_in_window(l, x) THEN x - l.wx ELSE WrapAdd(p.sx, x)

\* the address of the tile map entry of column x (ppu.rs:267-283)
tile_address(l, p, x) ==
    (IF bg_in_window(l, x) THEN l.window_map ELSE l.bg_map)
        + ((l.py \div 8) % 32) * 32 + ((bg_px(l, p, x) \div 8) % 32)

\* whether Attributes::from_bits accepts the byte (ppu.rs:296)
attributes_valid(bits) == BitAnd(bits, 255 - ATTRIBUTES_ALL) = 0

\* where the tile's data starts (ppu.rs:287-295)
tile_data_location(l, tile_index) ==
    l.tile_data_base
        + (IF l.unsigned_index THEN tile_index
           ELSE (IF tile_index >= 128 THEN tile_index - 256
                 ELSE tile_index) + 128) * 16

\* a tile coordinate, mirrored if the attributes' flip flag is set
flip(bits, flag, v) == IF Contains(bits, flag) THEN 7 - v ELSE v

\* whether the tile's data is read from VRAM bank 1
in_bank_1(p, bits) == p.mode = "Color" /\ Contains(bits, BANK)

\* the two bytes of row tile_y of the tile at location (ppu.rs:301-309,
\* 367-375)
tile_y_data(p, location, tile_y, bank_1) ==
    IF bank_1
    THEN <<read_ram1(p, location + tile_y * 2),
           read_ram1(p, location + tile_y * 2 + 1)>>
    ELSE <<read_ram0(p, location + tile_y * 2),
           read_ram0(p, location + tile_y * 2 + 1)>>

\* the colour number of column tile_x of that row (ppu.rs:311-313)
tile_color(data, tile_x) ==
    2 * Bit(data[2], 7 - tile_x) + Bit(data[1], 7 - tile_x)

\* what draw_bg stores for a pixel of that colour (ppu.rs:315-332)
bg_pixel(p, bits, color) ==
    [color |-> color,
     prio |-> IF color = 0 THEN "Color0"
              ELSE IF Contains(bits, PRIORITY) THEN "Priority"
              ELSE "Normal",
     rgb |-> IF p.mode = "Color" THEN <<0, 0, 0>>
             ELSE grey_to_l(p.bgp, color)]

\* the tile's pixel, given the tile map entry's index and attributes
bg_tile(l, p, px, tile_index, bits) ==
    bg_pixel(p, bits,
             tile_color(tile_y_data(p, tile_data_location(l, tile_index),
                                    flip(bits, Y_FLIP, l.py % 8),
                                    in_bank_1(p, bits)),
                        flip(bits, X_FLIP, px % 8)))

\* one iteration of draw_bg's loop (ppu.rs:257-333): what it computes for
\* column x
bg_fetch(l, p, x) ==
    bg_tile(l, p, bg_px(l, p, x),
            read_ram0(p, tile_address(l, p, x)),
            read_ram1(p, tile_address(l, p, x)))

\* PPU::draw_bg (ppu.rs:234-335).  No iteration of its loop reads what
\* another one wrote, so the columns are computed side by side; the call
\* panics at the first column whose attribute byte from_bits rejects.
draw_bg(p) ==
    LET l == bg_line(p)
    IN IF \E x \in 0..(SCREEN_W - 1) :
              ~attributes_valid(read_ram1(p, tile_address(l, p, x)))
       THEN Panic(p)
       ELSE Ok([p EXCEPT
                   !.bgprio =
                       [x \in DOMAIN p.bgprio |-> bg_fetch(l, p, x).prio],
                   !.frame_buffer =
                       [px \in DOMAIN p.frame_buffer |->
                           IF px[2] = p.ly
                           THEN rgba(bg_fetch(l, p, px[1]).rgb)
                           ELSE p.frame_buffer[px]]])

\* a plausible slip: a sprite behind the background hidden by colour 0 too
sprite_skip_behind_color_0(p, prio, bits) ==
    IF p.mode = "Color" /\ ~Contains(p.lcdc, WINDOW_PRIORITY)
    THEN prio = "Priority"
    ELSE IF prio = "Priority" THEN prio # "Color0"
    ELSE Contains(bits, PRIORITY)

\* the sprite-over-background decision (ppu.rs:394-400)
sprite_skip(p, prio, bits) ==
    IF p.mode = "Color" /\ ~Contains(p.lcdc, WINDOW_PRIORITY)
    THEN prio = "Priority"
    ELSE IF prio = "Priority" THEN prio # "Color0"
    ELSE Contains(bits, PRIORITY) /\ prio # "Color0"

\* whether draw_sprites skips the sprite on this scanline (ppu.rs:347-359)
sprite_off_line(ly, py, px, sprite_size) ==
    \/ IF py <= 255 - sprite_size + 1
       THEN ly < py \/ ly > py + sprite_size - 1
       ELSE ly > WrapAdd(py, sprite_size) - 1
    \/ (px >= SCREEN_W /\ px <= 255 - 7)

\* the sprite's fields from its four OAM bytes (ppu.rs:341-345)
sprite_fields(p, y, x, tile, attributes, sprite_size) ==
    [sprite_size |-> sprite_size,
     py |-> WrapSub(y, 16),
     px |-> WrapSub(x, 8),
     tile_number |-> BitAnd(tile, IF sprite_size = 16 THEN 254 ELSE 255),
     bits |-> BitAnd(attributes, ATTRIBUTES_ALL),
     off_line |-> sprite_off_line(p.ly, WrapSub(y, 16), WrapSub(x, 8),
                                  sprite_size)]

\* the head of draw_sprites' loop for sprite i (ppu.rs:338-359)
sprite_head(p, i) ==
    sprite_fields(p,
                  PPU_read(p, 65024 + i * 4),
                  PPU_read(p, 65024 + i * 4 + 1),
                  PPU_read(p, 65024 + i * 4 + 2),
                  PPU_read(p, 65024 + i * 4 + 3),
                  IF Contains(p.lcdc, OBJ_SIZE) THEN 16 ELSE 8)

\* the row of its tile the sprite shows on this scanline (ppu.rs:361-365)
sprite_tile_y(p, h) ==
    IF Contains(h.bits, Y_FLIP)
    THEN h.sprite_size - 1 - WrapSub(p.ly, h.py)
    ELSE WrapSub(p.ly, h.py)

\* the byte offset of pixel x of the scanline in the frame buffer
\* (ppu.rs:222-226)
set_rgb_offset(p, x) == p.ly * (4 * SCREEN_W) + x * 4

\* a plausible slip: the right edge tested against the width of a u8
sprite_on_screen_u8(dest) == dest <= 255

\* whether the inner loop keeps the column (ppu.rs:378-380)
sprite_on_screen(dest) == dest < SCREEN_W

\* what the inner loop does with a pixel of that colour at column dest
\* (ppu.rs:380-412): whether it writes the pixel, and the colour written
sprite_pixel(p, h, dest, color) ==
    [dest |-> dest,
     color |-> color,
     written |->
         /\ sprite_on_screen(dest)
         /\ color # 0
         /\ dest \in DOMAIN p.bgprio
         /\ ~sprite_skip(p, p.bgprio[dest], h.bits)
         /\ p.mode # "Color",
     rgb |-> IF Contains(h.bits, PALLETE_NO_0)
             THEN grey_to_l(p.op1, color)
             ELSE grey_to_l(p.op0, color)]

\* iteration x of the inner loop of a sprite on the scanline
\* (ppu.rs:361-413), h being the sprite's fields
sprite_fetch(p, h, x) ==
    sprite_pixel(p, h, WrapAdd(h.px, x),
                 tile_color(tile_y_data(p, 32768 + h.tile_number * 16,
                                        sprite_tile_y(p, h),
                                        in_bank_1(p, h.bits)),
                            flip(h.bits, X_FLIP, x)))

\* whether the sprite with fields h writes the pixel of column c on this
\* scanline: in iteration x = c - px of its inner loop, the one that
\* targets c
sprite_hits(p, h, c) ==
    /\ ~h.off_line
    /\ WrapSub(c, h.px) < 8
    /\ sprite_fetch(p, h, WrapSub(c, h.px)).written

sprite_writes(p, i, c) == sprite_hits(p, sprite_head(p, i), c)

\* the colour it writes there
sprite_rgb(p, h, c) == sprite_fetch(p, h, WrapSub(c, h.px)).rgb

\* the columns the inner loop of sprite i goes on with after its bounds
\* check (ppu.rs:347-359, 377-380)
sprite_targets(p, i) ==
    IF sprite_head(p, i).off_line THEN {}
    ELSE {d \in {WrapAdd(sprite_head(p, i).px, x) : x \in 0..7} :
              sprite_on_screen(d)}

\* the last sprite in OAM order that writes column c, or -1
last_writer(p, c) ==
    LET writers == {i \in 0..39 : sprite_writes(p, i, c)}
    IN IF writers = {} THEN -1
       ELSE CHOOSE j \in writers : \A k \in writers : k <= j

\* the pixel of column c after the loop over the sprites, i being the
\* last one that writes it
sprite_result(p, i, c, old) ==
    IF i < 0 THEN old ELSE rgba(sprite_rgb(p, sprite_head(p, i), c))

\* PPU::draw_sprites (ppu.rs:337-415).  No iteration reads the frame
\* buffer, so a kept pixel ends with what the last sprite in OAM order
\* that writes it has written.
draw_sprites(p) ==
    [p EXCEPT !.frame_buffer =
        [px \in DOMAIN p.frame_buffer |->
            IF px[2] = p.ly
            THEN sprite_result(p, last_writer(p, px[1]), px[1],
                               p.frame_buffer[px])
            ELSE p.frame_buffer[px]]]

\* the render on Draw -> HBlank (ppu.rs:153-158)
render(p) ==
    LET b == IF p.mode = "Color" \/ Contains(p.lcdc, WINDOW_PRIORITY)
             THEN draw_bg(p)
             ELSE Ok(p)
    IN IF b.panic THEN b
       ELSE IF Contains(p.lcdc, OBJ_ENABLE) THEN Ok(draw_sprites(b.ppu))
       ELSE b

(***************************************************************************)
(* PPU::cycle (ppu.rs:124-209): the struct after the call, the value       *)
(* returned, and whether the call panicked instead of returning.           *)
(***************************************************************************)
Raise(p, sel, i) ==
    IF Contains(p.lcds, sel) THEN p.interrupts \cup {i} ELSE p.interrupts

\* a plausible slip: the cycles left over carried into the next mode at once
cycle_OAMScan_falls_through(q) ==
    IF q.cycle_count > OAMScanCycles
    THEN [ppu |-> [q EXCEPT !.cycle_count = q.cycle_count - OAMScanCycles,
                            !.ppu_mode =
                                IF q.cycle_count - OAMScanCycles > DrawCycles
                                THEN "HBlank" ELSE "Draw"],
          ret |-> FALSE, panic |-> FALSE]
    ELSE [ppu |-> q, ret |-> FALSE, panic |-> FALSE]

cycle_OAMScan(q) ==
    IF q.cycle_count > OAMScanCycles
    THEN [ppu |-> [q EXCEPT !.cycle_count = q.cycle_count - OAMScanCycles,
                            !.ppu_mode = "Draw"],
          ret |-> FALSE, panic |-> FALSE]
    ELSE [ppu |-> q, ret |-> FALSE, panic |-> FALSE]

\* a plausible slip: HBlank's interrupt tested against the VBlank select
cycle_Draw_mode_1_select(q) ==
    IF q.cycle_count > DrawCycles
    THEN LET r == render([q EXCEPT !.ppu_mode = "HBlank",
                                   !.interrupts =
                                       Raise(q, MODE_1_SELECT, "LCD")])
         IN [ppu |-> r.ppu, ret |-> FALSE, panic |-> r.panic]
    ELSE [ppu |-> q, ret |-> FALSE, panic |-> FALSE]

cycle_Draw(q) ==
    IF q.cycle_count > DrawCycles
    THEN LET r == render([q EXCEPT !.ppu_mode = "HBlank",
                                   !.interrupts =
                                       Raise(q, MODE_0_SELECT, "LCD")])
         IN [ppu |-> r.ppu, ret |-> FALSE, panic |-> r.panic]
    ELSE [ppu |-> q, ret |-> FALSE, panic |-> FALSE]

\* a plausible slip: the frame signal given at the end of every line
cycle_HBlank_every_line(q) ==
    IF q.cycle_count > LineCycles
    THEN LET r == [q EXCEPT !.ly = q.ly + 1,
                            !.cycle_count = q.cycle_count - LineCycles]
         IN IF r.ly > LastVisibleLine
            THEN [ppu |-> [r EXCEPT !.ppu_mode = "VBlank",
                                    !.interrupts =
                                        Raise(r, MODE_1_SELECT, "LCD")
                                            \cup {"V_BLANK"}],
                  ret |-> TRUE, panic |-> FALSE]
            ELSE [ppu |-> [r EXCEPT !.ppu_mode = "OAMScan",
                                    !.interrupts =
                                        Raise(r, MODE_2_SELECT, "LCD")],
                  ret |-> TRUE, panic |-> FALSE]
    ELSE [ppu |-> q, ret |-> FALSE, panic |-> FALSE]

cycle_HBlank(q) ==
    IF q.cycle_count > LineCycles
    THEN LET r == [q EXCEPT !.ly = q.ly + 1,
                            !.cycle_count = q.cycle_count - LineCycles]
         IN IF r.ly > LastVisibleLine
            THEN [ppu |-> [r EXCEPT !.ppu_mode = "VBlank",
                                    !.interrupts =
                                        Raise(r, MODE_1_SELECT, "LCD")
                                            \cup {"V_BLANK"}],
                  ret |-> TRUE, panic |-> FALSE]
            ELSE [ppu |-> [r EXCEPT !.ppu_mode = "OAMScan",
                                    !.interrupts =
                                        Raise(r, MODE_2_SELECT, "LCD")],
                  ret |-> FALSE, panic |-> FALSE]
    ELSE [ppu |-> q, ret |-> FALSE, panic |-> FALSE]

cycle_VBlank(q) ==
    IF q.cycle_count > LineCycles
    THEN LET r == [q EXCEPT !.cycle_count = q.cycle_count - LineCycles,
                            !.vblanked_lines = q.vblanked_lines + 1]
         IN IF r.vblanked_lines >= VBlankLines
            THEN [ppu |-> [r EXCEPT !.vblanked_lines = 0,
                                    !.ly = 0,
                                    !.ppu_mode = "OAMScan",
                                    !.interrupts =
                                        Raise(r, MODE_2_SELECT, "LCD")],
                  ret |-> FALSE, panic |-> FALSE]
            ELSE [ppu |-> [r EXCEPT !.ly = r.ly + 1], ret |-> FALSE, panic |-> FALSE]
    ELSE [ppu |-> q, ret |-> FALSE, panic |-> FALSE]

PPU_cycle(p, cycles) ==
    IF ~Contains(p.lcdc, LCD_ENABLE)
    THEN [ppu |-> p, ret |-> FALSE, panic |-> FALSE]
    ELSE LET q == [p EXCEPT !.cycle_count = p.cycle_count + cycles,
                            !.interrupts =
                                IF p.ly = p.lc
                                THEN Raise(p, LYC_SELECT, "LCD")
                                ELSE p.interrupts]
         IN CASE q.ppu_mode = "OAMScan" -> cycle_OAMScan(q)
              [] q.ppu_mode = "Draw" -> cycle_Draw(q)
              [] q.ppu_mode = "HBlank" -> cycle_HBlank(q)
              [] q.ppu_mode = "VBlank" -> cycle_VBlank(q)

(***************************************************************************)
(* impl Memory for PPU, write (ppu.rs:467-507)                             *)
(***************************************************************************)
write_vram(p, a, v) ==
    IF p.ppu_mode # "Draw"
    THEN [p EXCEPT !.ram[RamIndex(p.ram_bank, a)] = v]
    ELSE p

write_oam(p, a, v) ==
    IF p.ppu_mode # "Draw" /\ p.ppu_mode # "OAMScan"
    THEN [p EXCEPT !.oam[a - 65024] = v]
    ELSE p

\* a plausible slip: switching the LCD off leaves LY where it was
write_lcdc_keeps_ly(p, v) ==
    IF ~Contains(v, LCD_ENABLE)
    THEN [p EXCEPT !.lcdc = v, !.ppu_mode = "HBlank",
                   !.frame_buffer = [px \in Pixels |-> <<0, 0, 0, 0>>]]
    ELSE [p EXCEPT !.lcdc = v]

\* FF40: every bit of the byte is an LCDC flag, so from_bits never fails
write_lcdc(p, v) ==
    IF ~Contains(v, LCD_ENABLE)
    THEN [p EXCEPT !.lcdc = v, !.ly = 0, !.ppu_mode = "HBlank",
                   !.frame_buffer = [px \in Pixels |-> <<0, 0, 0, 0>>]]
    ELSE [p EXCEPT !.lcdc = v]

\* FF41: LCDS::from_bits(v & 0b1111_1100).unwrap()
write_stat(p, v) ==
    LET sanitised == BitAnd(v, 252)
    IN IF BitAnd(sanitised, 255 - LCDS_ALL) # 0
       THEN Panic(p)
       ELSE Ok([p EXCEPT !.lcds = sanitised])

PPU_write(p, a, v) ==
    CASE IsVram(a) -> Ok(write_vram(p, a, v))
      [] IsOam(a) -> Ok(write_oam(p, a, v))
      [] a = 65344 -> Ok(write_lcdc(p, v))
      [] a = 65345 -> write_stat(p, v)
      [] a = 65346 -> Ok([p EXCEPT !.sy = v])
      [] a = 65347 -> Ok([p EXCEPT !.sx = v])
      [] a = 65348 -> Ok(p)                        \* LY: a message, no change
      [] a = 65349 -> Ok([p EXCEPT !.lc = v])
      [] a = 65351 -> Ok([p EXCEPT !.bgp = v])
      [] a = 65352 -> Ok([p EXCEPT !.op0 = v])
      [] a = 65353 -> Ok([p EXCEPT !.op1 = v])
      [] a = 65354 -> Ok([p EXCEPT !.wy = v])
      [] a = 65355 -> Ok([p EXCEPT !.wx = v])
      [] a = 65357 -> Ok(p)
      [] a = 65359 -> Ok([p EXCEPT !.ram_bank = BitAnd(v, 1)])
      [] a >= 65376 /\ a <= 65391 -> Ok(p)
      [] OTHER -> Panic(p)

(***************************************************************************)
(* APU::hz_to_cycles (apu.rs:167-170)                                      *)
(***************************************************************************)
hz_to_cycles(hz) == (4 * 1024 * 1024) \div hz

LengthMax == 64

(***************************************************************************)
(* Channel 1 (sc1.rs).  duty_cycle is the DutyCycle bits; QUARTER = 1.     *)
(***************************************************************************)
SC1_new ==
    [dac_enabled |-> FALSE,
     sweep_pace |-> 0,
     negative_direction |-> FALSE,
     sweep_step |-> 0,
     duty_cycle |-> 1,
     length_timer |-> 0,
     volume |-> 0,
     positive_envelope |-> FALSE,
     envelope_pace |-> 0,
     period |-> 0,
     trigger |-> FALSE,
     length_enabled |-> FALSE,
     length_cycle_count |-> 0]

\* SC1::clear (sc1.rs:41-54): every field but the cycle counters
SC1_clear(c) ==
    [SC1_new EXCEPT !.length_cycle_count = c.length_cycle_count]

\* the 256 Hz length tick (sc1.rs:61-69)
length_tick(c) ==
    IF c.length_timer >= LengthMax
    THEN [c EXCEPT !.length_cycle_count = 0,
                   !.dac_enabled = FALSE,
                   !.length_enabled = FALSE]
    ELSE [c EXCEPT !.length_cycle_count = 0,
                   !.length_timer = c.length_timer + 1]

\* SC1::cycle (sc1.rs:56-97); the sweep is commented out in the source
SC1_cycle(c, cycles) ==
    IF c.length_enabled
    THEN LET d == [c EXCEPT !.length_cycle_count =
                                c.length_cycle_count + cycles]
         IN IF d.length_cycle_count >= hz_to_cycles(256)
            THEN length_tick(d)
            ELSE d
    ELSE c

B2N(b) == IF b THEN 1 ELSE 0

\* SC1::read (sc1.rs:101-115)
SC1_read(c, a) ==
    CASE a = 65296 -> BitOr(BitOr(BitOr(BitAnd(c.sweep_pace, 7) * 16,
                                        B2N(c.negative_direction) * 8),
                                  BitAnd(c.sweep_step, 7)), 128)
      [] a = 65297 -> BitOr((c.duty_cycle * 64) % 256, 63)
      [] a = 65298 -> BitOr(BitOr(BitAnd(c.volume, 15) * 16,
                                  B2N(c.positive_envelope) * 8),
                            BitAnd(c.envelope_pace, 7))
      [] a = 65299 -> 255
      [] a = 65300 -> BitOr(B2N(c.length_enabled) * 64, 191)
      [] OTHER -> 255

\* FF12 (sc1.rs:131-139)
write_nr12(c, v) ==
    LET d == [c EXCEPT !.volume = BitAnd(v, 240) \div 16,
                       !.positive_envelope = (BitAnd(v, 8) \div 8) # 0,
                       !.envelope_pace = BitAnd(v, 7)]
    IN IF BitAnd(SC1_read(d, 65298), 248) # 0
       THEN [d EXCEPT !.dac_enabled = TRUE]
       ELSE d

\* SC1::write (sc1.rs:117-154), called for FF10..FF14 only
SC1_write(c, a, v) ==
    CASE a = 65296 -> [c EXCEPT !.sweep_pace = BitAnd(v, 112) \div 16,
                                !.negative_direction =
                                    (BitAnd(v, 8) \div 8) # 0,
                                !.sweep_step = BitAnd(v, 7)]
      [] a = 65297 -> [c EXCEPT !.duty_cycle = v \div 64,
                                !.length_timer = BitAnd(v, 63)]
      [] a = 65298 -> write_nr12(c, v)
      \* period is u16: the high byte is kept, the low byte becomes v
      [] a = 65299 -> [c EXCEPT !.period =
                                    (c.period - (c.period % 256)) + v]
      [] a = 65300 -> [c EXCEPT !.trigger = (BitAnd(v, 128) \div 128) # 0,
                                !.length_enabled = (BitAnd(v, 64) \div 64) # 0,
                                !.period = (c.period % 256)
                                           + BitAnd(v, 7) * 256]

(***************************************************************************)
(* Channels 2-4 (sc2.rs, sc3.rs, sc4.rs are not among the sources): the    *)
(* two fields APU::write reads, set as the register tables describe.       *)
(***************************************************************************)
Chan_new == [dac_enabled |-> FALSE, trigger |-> FALSE]

\* pulse 2 and noise: NRx2 sets the DAC, NRx4 bit 7 triggers
Env_write(c, a, env, ctl, v) ==
    CASE a = env -> [c EXCEPT !.dac_enabled = BitAnd(v, 248) # 0]
      [] a = ctl -> [c EXCEPT !.trigger = v \div 128 = 1]
      [] OTHER -> c

\* wave: FF1A bit 7 is the DAC, FF1E bit 7 triggers
SC3_write(c, a, v) ==
    CASE a = 65306 -> [c EXCEPT !.dac_enabled = v \div 128 = 1]
      [] a = 65310 -> [c EXCEPT !.trigger = v \div 128 = 1]
      [] OTHER -> c

(***************************************************************************)
(* APU (apu.rs)                                                            *)
(***************************************************************************)
APU_new ==
    [audio_enabled |-> TRUE,
     is_ch_4_on |-> FALSE,
     is_ch_3_on |-> FALSE,
     is_ch_2_on |-> FALSE,
     is_ch_1_on |-> FALSE,
     left_volume |-> 0,
     right_volume |-> 0,
     panning |-> 0,
     sc1 |-> SC1_new,
     sc2 |-> Chan_new,
     sc3 |-> Chan_new,
     sc4 |-> Chan_new]

\* APU::cycle (apu.rs:60-165): the channels' cycle; the rest of the method
\* exports parameters to the synth and changes no field of the APU
APU_cycle(s, cycles) == [s EXCEPT !.sc1 = SC1_cycle(s.sc1, cycles)]

\* the global levels APU::cycle exports to the synth (apu.rs:125-139), in
\* fifteenths: master volume / 0xF while master audio is on, else 0
global_l(s) == IF s.audio_enabled THEN s.left_volume ELSE 0

global_r(s) == IF s.audio_enabled THEN s.right_volume ELSE 0

InRange(a, lo, hi) == a >= lo /\ a <= hi

\* APU::read (apu.rs:174-194) for the registers of the master control and
\* of channel 1, and for the addresses no arm matches
APU_read(s, a) ==
    CASE a = 65318 -> BitOr(B2N(s.audio_enabled) * 128
                            + B2N(s.is_ch_4_on) * 8
                            + B2N(s.is_ch_3_on) * 4
                            + B2N(s.is_ch_2_on) * 2
                            + B2N(s.is_ch_1_on), 112)
      [] a = 65317 -> s.panning
      [] a = 65316 -> BitOr((BitAnd(s.left_volume, 7) * 16) % 256,
                            BitAnd(s.right_volume, 7))
      [] InRange(a, 65296, 65300) -> SC1_read(s.sc1, a)
      [] InRange(a, 65319, 65327) \/ a = 65311 -> 255

\* a plausible slip: the channel 1 registers are written through
write_sc1_ungated(s, a, v) == [s EXCEPT !.sc1 = SC1_write(s.sc1, a, v)]

\* FF10..=FF14 (apu.rs:218-222)
write_sc1(s, a, v) ==
    IF s.audio_enabled
    THEN [s EXCEPT !.sc1 = SC1_write(s.sc1, a, v)]
    ELSE s

\* the match on the address (apu.rs:199-241)
write_dispatch(s, a, v) ==
    CASE a = 65318 -> [s EXCEPT !.audio_enabled = (v \div 128) = 1]
      [] a = 65317 -> IF s.audio_enabled THEN [s EXCEPT !.panning = v] ELSE s
      [] a = 65316 -> IF s.audio_enabled
                      THEN [s EXCEPT !.left_volume = v \div 16,
                                     !.right_volume = BitAnd(v, 7)]
                      ELSE s
      [] InRange(a, 65296, 65300) -> write_sc1(s, a, v)
      [] InRange(a, 65302, 65305) ->
            IF s.audio_enabled
            THEN [s EXCEPT !.sc2 = Env_write(s.sc2, a, 65303, 65305, v)]
            ELSE s
      [] InRange(a, 65306, 65310) ->
            IF s.audio_enabled
            THEN [s EXCEPT !.sc3 = SC3_write(s.sc3, a, v)]
            ELSE s
      [] InRange(a, 65328, 65343) ->
            [s EXCEPT !.sc3 = SC3_write(s.sc3, a, v)]
      [] InRange(a, 65312, 65315) ->
            IF s.audio_enabled
            THEN [s EXCEPT !.sc4 = Env_write(s.sc4, a, 65313, 65315, v)]
            ELSE s
      [] OTHER -> s

\* a plausible slip: a trigger turns the channel on whatever the DAC
take_trigger_1_any_dac(s) ==
    IF s.sc1.trigger
    THEN [s EXCEPT !.sc1.trigger = FALSE, !.is_ch_1_on = TRUE]
    ELSE s

\* the trigger flags inspected after the match (apu.rs:243-270)
take_trigger_1(s) ==
    IF s.sc1.trigger
    THEN [s EXCEPT !.sc1.trigger = FALSE,
                   !.is_ch_1_on = IF s.sc1.dac_enabled THEN TRUE
                                  ELSE s.is_ch_1_on]
    ELSE s

take_trigger_2(s) ==
    IF s.sc2.trigger
    THEN [s EXCEPT !.sc2.trigger = FALSE,
                   !.is_ch_2_on = IF s.sc2.dac_enabled THEN TRUE
                                  ELSE s.is_ch_2_on]
    ELSE s

take_trigger_3(s) ==
    IF s.sc3.trigger
    THEN [s EXCEPT !.sc3.trigger = FALSE,
                   !.is_ch_3_on = IF s.sc3.dac_enabled THEN TRUE
                                  ELSE s.is_ch_3_on]
    ELSE s

take_trigger_4(s) ==
    IF s.sc4.trigger
    THEN [s EXCEPT !.sc4.trigger = FALSE,
                   !.is_ch_4_on = IF s.sc4.dac_enabled THEN TRUE
                                  ELSE s.is_ch_4_on]
    ELSE s

\* a plausible slip: the channel-on flags survive the master switch
master_clear_keeps_flags(s) ==
    [s EXCEPT !.left_volume = 0,
              !.right_volume = 0,
              !.panning = 0,
              !.sc1 = SC1_clear(s.sc1),
              !.sc2 = Chan_new,
              !.sc3 = Chan_new,
              !.sc4 = Chan_new]

\* NR52 written with bit 7 clear (apu.rs:272-288)
master_clear(s) ==
    [s EXCEPT !.is_ch_1_on = FALSE,
              !.is_ch_2_on = FALSE,
              !.is_ch_3_on = FALSE,
              !.is_ch_4_on = FALSE,
              !.left_volume = 0,
              !.right_volume = 0,
              !.panning = 0,
              !.sc1 = SC1_clear(s.sc1),
              !.sc2 = Chan_new,
              !.sc3 = Chan_new,
              !.sc4 = Chan_new]

\* APU::write (apu.rs:196-289)
APU_write(s, a, v) ==
    LET t == take_trigger_4(take_trigger_3(take_trigger_2(take_trigger_1(
                 write_dispatch(s, a, v)))))
    IN IF a = 65318 /\ ~t.audio_enabled THEN master_clear(t) ELSE t

(***************************************************************************)
(* The ROM-only cartridge (rom_only.rs).  The image is a Vec<u8> of any    *)
(* length: it is kept as its length and its bytes at the sampled           *)
(* addresses RomAddrs, every other byte being 0.                           *)
(***************************************************************************)
ROM_TOP == 32767                           \* 0x7FFF

RomLens == {16384, 32768}
RomAddrs == {0, 16383, 16384, 32767}
RomVals == {0, 255}
CartAddrs == RomAddrs \cup {8192, 40960}   \* and 0x2000, 0xA000
CartVals == RomVals \cup {1}

RomImages ==
    UNION {{[len |-> n, at |-> f] :
                f \in [{a \in RomAddrs : a < n} -> RomVals]} : n \in RomLens}

BlankImage == [len |-> 32768, at |-> [a \in RomAddrs |-> 0]]

\* rom[a as usize]: an index past the end of the Vec panics
RomIndex(rom, a) ==
    IF a >= rom.len THEN PANIC
    ELSE IF a \in DOMAIN rom.at THEN rom.at[a] ELSE 0

\* ROMOnly::new (rom_only.rs:21-27)
ROMOnly_new(rom) == [rom |-> rom]

\* impl Memory for ROMOnly, read (rom_only.rs:9-14)
ROMOnly_read(c, a) ==
    IF a <= ROM_TOP THEN RomIndex(c.rom, a) ELSE PANIC

\* a plausible slip: a write inside the image is stored
ROMOnly_write_stores(c, a, v) ==
    IF a < c.rom.len THEN [c EXCEPT !.rom.at = (a :> v) @@ @] ELSE c

\* impl Memory for ROMOnly, write (rom_only.rs:16)
ROMOnly_write(c, a, v) == c

\* the cartridge as built from an image, before any bus access
Plugged(image) ==
    [mbc |-> ROMOnly_new(image), image |-> image,
     wrote |-> <<>>, got |-> <<>>]

(***************************************************************************)
(* The PPU's callers: the host loop calls cycle, the bus dispatches reads  *)
(* and writes and drains the pending interrupts between calls.  A call     *)
(* that panics ends the run.                                               *)
(***************************************************************************)
GBModes == {"Classic"}

Init ==
    /\ ppu \in {PPU_new(m) : m \in GBModes}
    /\ ret = FALSE
    /\ panicked = FALSE
    /\ line_ticks = 0
    /\ frame_ticks = -1
    /\ host = [elapsed |-> 0, vblanks |-> 0]
    /\ apu = APU_new
    /\ last = 0
    /\ cart = Plugged(BlankImage)
    /\ env_hist = [volume |-> 0, elapsed |-> 0]

PPUCycle(n) ==
    /\ ~panicked
    /\ LET r == PPU_cycle(ppu, n)
       IN /\ ppu' = r.ppu
          /\ ret' = r.ret
          /\ panicked' = r.panic
    /\ UNCHANGED <<line_ticks, frame_ticks, host, apu_vars, cart, env_hist>>

PPUWrite(a, v) ==
    /\ ~panicked
    /\ LET r == PPU_write(ppu, a, v)
       IN /\ ppu' = r.ppu
          /\ panicked' = r.panic
    /\ UNCHANGED <<ret, line_ticks, frame_ticks, host, apu_vars, cart,
                   env_hist>>

\* the bus takes the pending interrupts (mmu, outside src/)
Drain ==
    /\ ~panicked
    /\ ppu.interrupts # {}
    /\ ppu' = [ppu EXCEPT !.interrupts = {}]
    /\ UNCHANGED <<ret, panicked, line_ticks, frame_ticks, host, apu_vars,
                   cart, env_hist>>

CycleStep == \E n \in CycleSteps : PPUCycle(n)

WriteLCDC == \E v \in LcdcVals : PPUWrite(65344, v)

\* the LCD is switched on once and stays on
EnableLCD ==
    /\ ~Contains(ppu.lcdc, LCD_ENABLE)
    /\ PPUWrite(65344, LCD_ENABLE)

WriteSTAT == \E v \in StatVals : PPUWrite(65345, v)

WriteLYC == \E v \in LycVals : PPUWrite(65349, v)

WriteVRAM == \E a \in VramAddrs : \E v \in MemVals : PPUWrite(a, v)

WriteOAM == \E a \in OamAddrs : \E v \in MemVals : PPUWrite(a, v)

WriteBank == \E v \in {0, 1} : PPUWrite(65359, v)

(***************************************************************************)
(* SpecPPU: the mode sequencer under LCDC writes that switch the LCD on    *)
(* and off at any point.                                                   *)
(***************************************************************************)
NextPPU == CycleStep \/ WriteLCDC \/ Drain

SpecPPU == Init /\ [][NextPPU]_vars

(***************************************************************************)
(* SpecStat: STAT and LYC writes while the LCD runs.                       *)
(***************************************************************************)
NextStat == CycleStep \/ EnableLCD \/ WriteSTAT \/ WriteLYC \/ Drain

SpecStat == Init /\ [][NextStat]_vars

(***************************************************************************)
(* SpecMem: VRAM and OAM accesses in every mode.                           *)
(***************************************************************************)
NextMem == CycleStep \/ EnableLCD \/ WriteVRAM \/ WriteOAM \/ WriteBank

SpecMem == Init /\ [][NextMem]_vars

(***************************************************************************)
(* SpecFrame: the LCD switched on once and then stepped one T-cycle per    *)
(* call, with the T-cycles counted since LY last changed and since VBlank  *)
(* was last entered (-1: not entered yet).                                 *)
(***************************************************************************)
Tick ==
    /\ Contains(ppu.lcdc, LCD_ENABLE)
    /\ ~panicked
    /\ LET r == PPU_cycle(ppu, 1)
       IN /\ ppu' = r.ppu
          /\ ret' = r.ret
          /\ panicked' = r.panic
          /\ line_ticks' = IF r.ppu.ly # ppu.ly THEN 0 ELSE line_ticks + 1
          /\ frame_ticks' = IF r.ret THEN 0
                            ELSE IF frame_ticks < 0 THEN frame_ticks
                            ELSE frame_ticks + 1
    /\ UNCHANGED <<host, apu_vars, cart, env_hist>>

NextFrame == EnableLCD \/ Tick

SpecFrame == Init /\ [][NextFrame]_vars

(***************************************************************************)
(* SpecRender: either console mode, the LCD switched on once with the      *)
(* background and the sprites enabled or not, and the first tile map       *)
(* entry written in both VRAM banks.                                       *)
(***************************************************************************)
RenderModes == {"Classic", "Color"}

InitRender ==
    /\ ppu \in {PPU_new(m) : m \in RenderModes}
    /\ ret = FALSE
    /\ panicked = FALSE
    /\ line_ticks = 0
    /\ frame_ticks = -1
    /\ host = [elapsed |-> 0, vblanks |-> 0]
    /\ apu = APU_new
    /\ last = 0
    /\ cart = Plugged(BlankImage)
    /\ env_hist = [volume |-> 0, elapsed |-> 0]

RenderLCDC ==
    /\ ~Contains(ppu.lcdc, LCD_ENABLE)
    /\ \E v \in RenderLcdcVals : PPUWrite(65344, v)

WriteTile == \E a \in TileAddrs : \E v \in TileVals : PPUWrite(a, v)

NextRender == CycleStep \/ RenderLCDC \/ WriteTile \/ WriteBank

SpecRender == InitRender /\ [][NextRender]_vars

(***************************************************************************)
(* SpecWindow: mono mode, a background whose second tile row is filled     *)
(* with tile 1, shown through SY = 8 behind a window at WY = 0.            *)
(***************************************************************************)
RECURSIVE Written(_, _)
\* the PPU after the bus made the writes ws, <<address, byte>> each
Written(p, ws) ==
    IF ws = <<>> THEN p
    ELSE Written(PPU_write(p, Head(ws)[1], Head(ws)[2]).ppu, Tail(ws))

WindowScene(sy, wx) ==
    Written(PPU_new("Classic"),
            <<<<38944, 1>>,                \* 0x9820: tile 1
              <<32784, 255>>,              \* 0x8010: its first row, colour 1
              <<65351, 228>>,              \* BGP: colour n is shade n
              <<65346, sy>>,               \* SY
              <<65354, 0>>,                \* WY
              <<65355, wx>>>>)             \* WX

WindowScenes == {WindowScene(sy, wx) : sy \in {0, 8}, wx \in {7, 15}}

\* LCDC with the LCD on, tile data at 0x8000 and the background on:
\* without and with the window
WindowLcdcVals == {145, 177}

InitWindow ==
    /\ ppu \in WindowScenes
    /\ ret = FALSE
    /\ panicked = FALSE
    /\ line_ticks = 0
    /\ frame_ticks = -1
    /\ host = [elapsed |-> 0, vblanks |-> 0]
    /\ apu = APU_new
    /\ last = 0
    /\ cart = Plugged(BlankImage)
    /\ env_hist = [volume |-> 0, elapsed |-> 0]

WindowLCDC ==
    /\ ~Contains(ppu.lcdc, LCD_ENABLE)
    /\ \E v \in WindowLcdcVals : PPUWrite(65344, v)

NextWindow == CycleStep \/ WindowLCDC

SpecWindow == InitWindow /\ [][NextWindow]_vars

(***************************************************************************)
(* SpecScene: either mode, sprite 0 at the top left corner of the screen   *)
(* over the first background tile, sprite 1 across the right edge, all     *)
(* showing tile 1.  OAM takes writes in HBlank and VBlank only, so the     *)
(* scene is written with the LCD switched off.                             *)
(***************************************************************************)
Scene(mode, tile, attributes, sprite_attributes) ==
    Written(PPU_new(mode),
            <<<<65344, 0>>,                \* LCDC: LCD off, mode HBlank
              <<38912, tile>>,             \* 0x9800: the first tile
              <<65359, 1>>,                \* VRAM bank 1
              <<38912, attributes>>,       \* 0x9800: its attributes
              <<65359, 0>>,                \* VRAM bank 0
              <<32784, 255>>,              \* 0x8010: tile 1, row 0, colour 1
              <<32786, 255>>,              \* 0x8012: tile 1, row 1, colour 1
              <<65024, 16>>,               \* sprite 0: y = 16, on LY 0..7
              <<65025, 8>>,                \* x = 8, on columns 0..7
              <<65026, 1>>,                \* tile 1
              <<65027, sprite_attributes>>,
              <<65028, 16>>,               \* sprite 1: y = 16
              <<65029, 164>>,              \* x = 164, on columns 156..163
              <<65030, 1>>,                \* tile 1
              <<65351, 228>>,              \* BGP: colour n is shade n
              <<65352, 27>>>>)             \* OBP0: colour n is shade 3 - n

Scenes ==
    {Scene(mode, tile, attributes, sprite_attributes) :
        mode \in RenderModes, tile \in {0, 1},
        attributes \in {0, PRIORITY}, sprite_attributes \in {0, PRIORITY}}

\* LCDC with the LCD on, tile data at 0x8000 and the sprites on: without
\* and with bit 0
SceneLcdcVals == {146, 147}

InitScene ==
    /\ ppu \in Scenes
    /\ ret = FALSE
    /\ panicked = FALSE
    /\ line_ticks = 0
    /\ frame_ticks = -1
    /\ host = [elapsed |-> 0, vblanks |-> 0]
    /\ apu = APU_new
    /\ last = 0
    /\ cart = Plugged(BlankImage)
    /\ env_hist = [volume |-> 0, elapsed |-> 0]

SceneLCDC ==
    /\ ~Contains(ppu.lcdc, LCD_ENABLE)
    /\ \E v \in SceneLcdcVals : PPUWrite(65344, v)

NextScene == CycleStep \/ SceneLCDC

SpecScene == InitScene /\ [][NextScene]_vars

(***************************************************************************)
(* SpecBlank: mono mode from power-on, BGP and LCDC written once, then one *)
(* frame's worth of T-cycles, one per call.                                *)
(***************************************************************************)
BgpVals == {252}                     \* 0xFC

FrameCycles == (SCREEN_H + VBlankLines) * LineCycles

WriteBGP ==
    /\ ppu.bgp \notin BgpVals
    /\ \E v \in BgpVals : PPUWrite(65351, v)

FrameTick ==
    /\ Contains(ppu.lcdc, LCD_ENABLE)
    /\ ppu.bgp \in BgpVals
    /\ ~panicked
    /\ host.elapsed < FrameCycles
    /\ LET r == PPU_cycle(ppu, 1)
       IN /\ ppu' = r.ppu
          /\ ret' = r.ret
          /\ panicked' = r.panic
          /\ host' = [elapsed |-> host.elapsed + 1,
                      vblanks |-> host.vblanks + B2N(r.ret)]
    /\ UNCHANGED <<line_ticks, frame_ticks, apu_vars, cart, env_hist>>

NextBlank == EnableLCD \/ WriteBGP \/ FrameTick

SpecBlank == Init /\ [][NextBlank]_vars

(***************************************************************************)
(* SpecBurst: cycle calls of any size: of two lines' cycles, of a frame's, *)
(* of a thousand million.  A call larger than the regular step is made on  *)
(* an empty counter, and calls are made while the counter holds no more    *)
(* than a frame and a line, which keeps every sum far inside u32.          *)
(***************************************************************************)
BurstSteps == {1000, FrameCycles, 1000 * 1000 * 1000}

Backlog == FrameCycles + LineCycles

Burst(n) ==
    /\ n \in CycleSteps \/ ppu.cycle_count = 0
    /\ ppu.cycle_count <= Backlog
    /\ PPUCycle(n)

BurstStep == \E n \in CycleSteps \cup BurstSteps : Burst(n)

NextBurst == EnableLCD \/ BurstStep

SpecBurst == Init /\ [][NextBurst]_vars

(***************************************************************************)
(* The APU's callers: the bus writes registers, the host loop calls cycle. *)
(***************************************************************************)
APUWrite(a, v) ==
    /\ apu' = APU_write(apu, a, v)
    /\ last' = a
    /\ UNCHANGED <<ppu_vars, cart, env_hist>>

APUCycle(n) ==
    /\ apu' = APU_cycle(apu, n)
    /\ UNCHANGED <<last, ppu_vars, cart, env_hist>>

\* the sound registers NR10..NR51 (FF10..FF25) and NR52
SoundRegs == 65296..65317
NR52 == 65318

\* the bytes the bus writes to each register in SpecAPU
ApuVals(a) ==
    CASE a = NR52 -> {0, 128}
      [] a = 65296 -> {255}                \* NR10: sweep
      [] a = 65297 -> {64}                 \* NR11: duty 25%, length 0
      [] a = 65298 -> {0, 240}             \* NR12: upper bits zero, volume 15
      [] a = 65299 -> {0}                  \* NR13
      [] a = 65300 -> {128, 64}            \* NR14: trigger, length enable
      [] a \in {65305, 65310, 65315} -> {128}   \* NR24, NR34, NR44: trigger
      [] a \in {65303, 65313} -> {240}     \* NR22, NR42: volume 15
      [] a = 65306 -> {128}                \* NR30: DAC on
      [] a = 65316 -> {247}                \* NR50: every bit but 3
      [] OTHER -> {255}

WriteSound == \E a \in SoundRegs : \E v \in ApuVals(a) : APUWrite(a, v)

WriteNR52 == \E v \in ApuVals(NR52) : APUWrite(NR52, v)

(***************************************************************************)
(* SpecAPU: register writes with master audio switched on and off.         *)
(***************************************************************************)
NextAPU == WriteSound \/ WriteNR52

SpecAPU == Init /\ [][NextAPU]_vars

(***************************************************************************)
(* SpecLength: channel 1's length timer under cycle.                       *)
(***************************************************************************)
LengthWrites ==
    {<<65297, 63>>, <<65297, 62>>,         \* NR11: length_timer 63, 62
     <<65298, 240>>,                       \* NR12: volume 15
     <<65300, 192>>, <<65300, 128>>}       \* NR14: trigger with/without length

ApuSteps == {8192, 16384}

WriteCh1 == \E w \in LengthWrites : APUWrite(w[1], w[2])

ApuCycleStep == \E n \in ApuSteps : APUCycle(n)

NextLength == WriteCh1 \/ ApuCycleStep

SpecLength == Init /\ [][NextLength]_vars

(***************************************************************************)
(* SpecMaster: master audio switched off and on while channel 1 runs.      *)
(***************************************************************************)
MasterWrites ==
    {<<65316, 247>>,                       \* NR50: every bit but 3
     <<65317, 255>>,                       \* NR51: every channel, both sides
     <<65299, 18>>,                        \* NR13: period low 0x12
     <<65300, 7>>}                         \* NR14: period high 7

WriteMaster == \E w \in MasterWrites : APUWrite(w[1], w[2])

NextMaster == WriteCh1 \/ WriteMaster \/ WriteNR52 \/ ApuCycleStep

SpecMaster == Init /\ [][NextMaster]_vars

(***************************************************************************)
(* SpecEnvelope: channel 1's volume under cycle, from an NR12 write on.    *)
(***************************************************************************)
EnvelopeTick == hz_to_cycles(64)

EnvelopeSpan == 3 * EnvelopeTick            \* the stretch of time followed

EnvWrites ==
    {241,                                  \* volume 15, down, pace 1
     10,                                   \* volume 0, up, pace 2
     233,                                  \* volume 14, up, pace 1
     128}                                  \* volume 8, pace 0

EnvSteps == {16384, 65536}

WriteEnvelope ==
    \E v \in EnvWrites :
        /\ apu' = APU_write(apu, 65298, v)
        /\ last' = 65298
        /\ env_hist' = [volume |-> apu'.sc1.volume, elapsed |-> 0]
        /\ UNCHANGED <<ppu_vars, cart>>

TriggerCh1 ==
    /\ apu' = APU_write(apu, 65300, 128)
    /\ last' = 65300
    /\ UNCHANGED <<ppu_vars, cart, env_hist>>

EnvelopeCycle ==
    \E n \in EnvSteps :
        /\ env_hist.elapsed + n <= EnvelopeSpan
        /\ apu' = APU_cycle(apu, n)
        /\ env_hist' = [env_hist EXCEPT !.elapsed = env_hist.elapsed + n]
        /\ UNCHANGED <<last, ppu_vars, cart>>

NextEnvelope == WriteEnvelope \/ TriggerCh1 \/ EnvelopeCycle

SpecEnvelope == Init /\ [][NextEnvelope]_vars

(***************************************************************************)
(* SpecRom: the bus writes to and reads from a ROM-only cartridge built    *)
(* from any image.  A read that panics ends the run.                       *)
(***************************************************************************)
InitRom ==
    /\ ppu = PPU_new("Classic")
    /\ ret = FALSE
    /\ panicked = FALSE
    /\ line_ticks = 0
    /\ frame_ticks = -1
    /\ host = [elapsed |-> 0, vblanks |-> 0]
    /\ apu = APU_new
    /\ last = 0
    /\ cart \in {Plugged(image) : image \in RomImages}
    /\ env_hist = [volume |-> 0, elapsed |-> 0]

CartWrite(a, v) ==
    /\ ~panicked
    /\ cart' = [cart EXCEPT !.mbc = ROMOnly_write(cart.mbc, a, v),
                            !.wrote = <<a, v>>,
                            !.got = <<>>]
    /\ UNCHANGED <<ppu_vars, apu_vars, env_hist>>

CartRead(a) ==
    /\ ~panicked
    /\ LET r == ROMOnly_read(cart.mbc, a)
       IN /\ cart' = [cart EXCEPT !.got = <<a, r>>]
          /\ panicked' = (r = PANIC)
    /\ UNCHANGED <<ppu, ret, line_ticks, frame_ticks, host, apu_vars,
                   env_hist>>

WriteCart == \E a \in CartAddrs, v \in CartVals : CartWrite(a, v)

ReadCart == \E a \in CartAddrs : CartRead(a)

NextRom == WriteCart \/ ReadCart

SpecRom == InitRom /\ [][NextRom]_vars

(***************************************************************************)
(*                               Properties                                *)
(***************************************************************************)
LcdOn == Contains(ppu.lcdc, LCD_ENABLE)

LastLine == SCREEN_H + VBlankLines - 1

IsCycleCall == \E n \in CycleSteps : PPUCycle(n)

\* C1: while LCD_ENABLE is set, 0 <= LY <= 153, and LY is in 144..153
\* exactly when the mode is VBlank (SpecPPU).
C1_LyRange ==
    LcdOn =>
        /\ ppu.ly >= 0
        /\ ppu.ly <= LastLine
        /\ (ppu.ly >= SCREEN_H /\ ppu.ly <= LastLine)
               <=> (ppu.ppu_mode = "VBlank")

\* the last line of a VBlank that was entered after the LCD had been
\* switched off during an earlier VBlank and on again
C1_Witness ==
    /\ LcdOn
    /\ ppu.ppu_mode = "VBlank"
    /\ ppu.ly > SCREEN_H
    /\ ppu.ly - SCREEN_H < ppu.vblanked_lines

\* C2: stepped one T-cycle per call with the LCD on, VBlank is entered
\* every 70224 = 154 * 456 T-cycles, every scanline taking 456 (SpecFrame).
C2_FrameLength ==
    [][Tick =>
        /\ (ret' /\ frame_ticks >= 0) => (frame_ticks + 1 = FrameCycles)
        /\ (ppu'.ly # ppu.ly) => (line_ticks + 1 = LineCycles)]_vars

\* what the sequencer does instead: a visible line takes 80 + 456 T-cycles
\* (the first one 537), a VBlank line 456, a frame 144 * 536 + 10 * 456
FrameCyclesOfCode ==
    SCREEN_H * (OAMScanCycles + LineCycles) + VBlankLines * LineCycles

FrameLengthOfCode ==
    [][Tick =>
        /\ (ret' /\ frame_ticks >= 0) => (frame_ticks + 1 = FrameCyclesOfCode)
        /\ (ppu'.ly # ppu.ly) =>
              line_ticks + 1 \in
                  {LineCycles, OAMScanCycles + LineCycles,
                   OAMScanCycles + LineCycles + 1}]_vars

\* C3: a read of FF41 gives the mode's code in bits 1..0 and LY == LC in
\* bit 2, whatever was written to FF41 (SpecStat).
C3_StatRead ==
    LET stat == PPU_read(ppu, 65345)
    IN /\ stat % 4 = ModeCode(ppu.ppu_mode)
       /\ (Bit(stat, 2) = 1) <=> (ppu.ly = ppu.lc)

\* the byte stored at a bus address
StoredVram(p, a) == RamAt(p, RamIndex(p.ram_bank, a))
StoredOam(p, a) == OamAt(p, a - 65024)

\* C4: while LCD_ENABLE is clear, power-on included, VRAM and OAM reads
\* return the stored byte, never the lock-out value (SpecMem).
C4_OpenWhenLcdOff ==
    ~LcdOn =>
        /\ \A a \in VramAddrs : PPU_read(ppu, a) = StoredVram(ppu, a)
        /\ \A a \in OamAddrs : PPU_read(ppu, a) = StoredOam(ppu, a)

ReadsGated(p) ==
    /\ \A a \in VramAddrs :
          PPU_read(p, a) = IF p.ppu_mode = "Draw" THEN 255
                           ELSE StoredVram(p, a)
    /\ \A a \in OamAddrs :
          PPU_read(p, a) = IF p.ppu_mode \in {"OAMScan", "Draw"} THEN 255
                           ELSE StoredOam(p, a)

WritesGated ==
    /\ \A a \in VramAddrs : \A v \in MemVals :
          PPUWrite(a, v) =>
              /\ ppu'.oam = ppu.oam
              /\ ppu'.ram =
                    IF ppu.ppu_mode = "Draw" THEN ppu.ram
                    ELSE [ppu.ram EXCEPT ![RamIndex(ppu.ram_bank, a)] = v]
    /\ \A a \in OamAddrs : \A v \in MemVals :
          PPUWrite(a, v) =>
              /\ ppu'.ram = ppu.ram
              /\ ppu'.oam =
                    IF ppu.ppu_mode \in {"OAMScan", "Draw"} THEN ppu.oam
                    ELSE [ppu.oam EXCEPT ![a - 65024] = v]

\* C5: in Draw VRAM reads return 0xFF and VRAM writes change neither bank;
\* in OAMScan and Draw OAM reads return 0xFF and OAM writes change nothing;
\* in the other modes the access reaches the stored byte, for VRAM that of
\* the selected bank (SpecMem).
C5_ModeGating == [][ReadsGated(ppu) /\ WritesGated]_vars

\* Draw with a byte stored in the selected VRAM bank and in OAM, both read
\* as 0xFF; the other bank holds something else
C5_Witness ==
    /\ ppu.ppu_mode = "Draw"
    /\ ppu.ram_bank = 1
    /\ StoredVram(ppu, 32768) = 90
    /\ RamAt(ppu, RamIndex(0, 32768)) = 0
    /\ StoredOam(ppu, 65183) = 90
    /\ PPU_read(ppu, 32768) = 255
    /\ PPU_read(ppu, 65183) = 255

\* C6: while master audio is off, a write to FF10..FF25 leaves NR50, NR51,
\* the four channel-on flags and channel 1 as they were (SpecAPU).
C6_GatedWrites ==
    [][\A a \in SoundRegs : \A v \in ApuVals(a) :
          (~apu.audio_enabled /\ APUWrite(a, v)) =>
              /\ apu'.left_volume = apu.left_volume
              /\ apu'.right_volume = apu.right_volume
              /\ apu'.panning = apu.panning
              /\ apu'.sc1 = apu.sc1
              /\ APU_read(apu', NR52) = APU_read(apu, NR52)
              /\ APU_read(apu', NR52) = 112]_vars

\* a sound register was written while master audio was off
C6_Witness ==
    /\ ~apu.audio_enabled
    /\ last = 65298

\* C7: with master audio on, NR12 written with upper 5 bits zero leaves
\* channel 1's DAC disabled (SpecAPU).
C7_DacCleared ==
    [][\A v \in ApuVals(65298) :
          (apu.audio_enabled /\ BitAnd(v, 248) = 0 /\ APUWrite(65298, v)) =>
              ~apu'.sc1.dac_enabled]_vars

IsApuCycleCall == \E n \in ApuSteps : APUCycle(n)

\* C8: when channel 1 is on and cycle lets its length timer run out, NR52
\* bit 0 reads 0 afterwards (SpecLength).
C8_FlagClearedByLength ==
    [][(/\ IsApuCycleCall
        /\ apu.is_ch_1_on
        /\ apu.sc1.length_enabled
        /\ ~apu'.sc1.length_enabled)
          => Bit(APU_read(apu', NR52), 0) = 0]_vars

\* C9: the length tick at which length_timer reaches 64 clears dac_enabled
\* and length_enabled (SpecLength).
C9_ClearedAtMax ==
    [][(/\ IsApuCycleCall
        /\ apu.sc1.length_enabled
        /\ apu.sc1.length_timer < LengthMax
        /\ apu'.sc1.length_timer = LengthMax)
          => (~apu'.sc1.dac_enabled /\ ~apu'.sc1.length_enabled)]_vars

\* C10: cycle returns true exactly in the calls that change the mode into
\* VBlank; such a call makes LY 144 and adds VBLANK to the pending
\* interrupts; no other call adds VBLANK (SpecPPU).
C10_FrameSignal ==
    [][IsCycleCall =>
        /\ ret' <=> (ppu.ppu_mode # "VBlank" /\ ppu'.ppu_mode = "VBlank")
        /\ ret' => (ppu'.ly = SCREEN_H /\ "V_BLANK" \in ppu'.interrupts)
        /\ ~ret' => ("V_BLANK" \in ppu'.interrupts
                        <=> "V_BLANK" \in ppu.interrupts)]_vars

\* the state a call leaves that entered VBlank, in a frame that follows an
\* LCD switched off during VBlank
C10_Witness ==
    /\ ret
    /\ ppu.ppu_mode = "VBlank"
    /\ ppu.ly = SCREEN_H
    /\ ppu.interrupts = {"V_BLANK"}
    /\ ppu.vblanked_lines > 0

\* C11: with the LCD on, STAT = 0x40, and the pending interrupts drained
\* before the call, a cycle call adds LCD exactly when LY == LC as the call
\* returns: the call that changes LY into LC raises it, the call in which
\* LY leaves LC does not (SpecStat).
C11_LycOnReturn ==
    [][(/\ IsCycleCall
        /\ LcdOn
        /\ ppu.lcds = LYC_SELECT
        /\ ppu.interrupts = {})
          => ("LCD" \in ppu'.interrupts <=> ppu'.ly = ppu'.lc)]_vars

\* what the code does instead: LY is compared with LC as the call begins,
\* before the mode step changes LY
LycOnEntry ==
    [][(/\ IsCycleCall
        /\ LcdOn
        /\ ppu.lcds = LYC_SELECT
        /\ ppu.interrupts = {})
          => ("LCD" \in ppu'.interrupts <=> ppu.ly = ppu.lc)]_vars

\* the mode a cycle call changes into, with that mode's STAT select set
EntersSelected(mode, sel) ==
    /\ ppu.ppu_mode # mode
    /\ ppu'.ppu_mode = mode
    /\ Contains(ppu.lcds, sel)

\* C12: with STAT.LYC_INT clear, a cycle call adds LCD to the pending
\* interrupts exactly when it enters HBlank with MODE0_INT set, VBlank with
\* MODE1_INT set or OAMScan with MODE2_INT set; entering Draw raises
\* nothing, and with every select bit clear no call raises LCD (SpecStat).
C12_ModeInterrupts ==
    [][(/\ IsCycleCall
        /\ ~Contains(ppu.lcds, LYC_SELECT)
        /\ "LCD" \notin ppu.interrupts)
          => /\ "LCD" \in ppu'.interrupts
                 <=> \/ EntersSelected("HBlank", MODE_0_SELECT)
                     \/ EntersSelected("VBlank", MODE_1_SELECT)
                     \/ EntersSelected("OAMScan", MODE_2_SELECT)
             /\ ppu'.ppu_mode = "Draw" => "LCD" \notin ppu'.interrupts
             /\ BitAnd(ppu.lcds, 120) = 0 => "LCD" \notin ppu'.interrupts]_vars

\* HBlank entered from Draw with only MODE0_INT selected: LCD is pending
C12_Witness ==
    /\ LcdOn
    /\ ppu.ppu_mode = "HBlank"
    /\ ppu.lcds = MODE_0_SELECT
    /\ ppu.interrupts = {"LCD"}

\* C13: a cycle call sets LY back to 0 only from LY = 153: every VBlank
\* that is entered lasts the ten lines 144..153 before the mode returns to
\* OAMScan, also after the LCD was switched off and on again (SpecPPU).
C13_WrapAt153 ==
    [][(/\ IsCycleCall
        /\ ppu.ppu_mode = "VBlank"
        /\ ppu'.ppu_mode = "OAMScan")
          => /\ ppu.ly = LastLine
             /\ ppu.vblanked_lines = VBlankLines - 1]_vars

NR50 == 65316

\* C14: with master audio on, NR50 written with v and then read gives
\* (((v >> 4) & 7) << 4) | (v & 7) with the reserved bits 7 and 3 set
\* (SpecAPU).
C14_Nr50RoundTrip ==
    [][\A v \in ApuVals(NR50) :
          (apu.audio_enabled /\ APUWrite(NR50, v)) =>
              APU_read(apu', NR50) =
                  BitOr(BitOr(BitAnd(v \div 16, 7) * 16, BitAnd(v, 7)),
                        136)]_vars

\* what the read gives instead: the two volumes with bits 7 and 3 clear
Nr50ReadOfCode ==
    [][\A v \in ApuVals(NR50) :
          (apu.audio_enabled /\ APUWrite(NR50, v)) =>
              APU_read(apu', NR50) =
                  BitOr(BitAnd(v \div 16, 7) * 16, BitAnd(v, 7))]_vars

\* C15: the stored master volumes stay within 0..7, so the global levels
\* exported to the synth never exceed 7/15 (SpecAPU).
C15_VolumeRange ==
    /\ apu.left_volume \in 0..7
    /\ apu.right_volume \in 0..7
    /\ global_l(apu) <= 7
    /\ global_r(apu) <= 7

NR51 == 65317

\* C16: once NR52 was written with bit 7 clear, and until it is written
\* with bit 7 set, NR52 reads 0x70, NR50 and NR51 read 0x00, the four
\* channel-on flags are clear and channel 1's register fields are at their
\* power-on defaults, whatever cycle calls and gated writes follow
\* (SpecMaster).
C16_MasterOff ==
    ~apu.audio_enabled =>
        /\ APU_read(apu, NR52) = 112
        /\ APU_read(apu, NR50) = 0
        /\ APU_read(apu, NR51) = 0
        /\ ~apu.is_ch_1_on /\ ~apu.is_ch_2_on
        /\ ~apu.is_ch_3_on /\ ~apu.is_ch_4_on
        /\ [apu.sc1 EXCEPT !.length_cycle_count = 0] = SC1_new

\* master audio off after channel 1's length timer had been counting, and
\* a trigger written to NR14 since
C16_Witness ==
    /\ ~apu.audio_enabled
    /\ apu.sc1.length_cycle_count > 0
    /\ last = 65300

NR14 == 65300

\* C17: after every APU write channel 1's trigger flag is false, and NR52
\* bit 0 goes from 0 to 1 only by an NR14 write with bit 7 set made while
\* master audio is on and channel 1's DAC is enabled; a trigger with the
\* DAC disabled leaves the channel off, and so does enabling the DAC later
\* (SpecAPU).
C17_TriggerTurnsOn ==
    [][/\ ~apu'.sc1.trigger
       /\ (Bit(APU_read(apu, NR52), 0) = 0
              /\ Bit(APU_read(apu', NR52), 0) = 1)
            => \E v \in ApuVals(NR14) :
                  /\ APUWrite(NR14, v)
                  /\ Bit(v, 7) = 1
                  /\ apu.audio_enabled
                  /\ apu.sc1.dac_enabled]_vars

\* channel 1 turned on by the NR14 write just made
C17_Witness ==
    /\ last = NR14
    /\ apu.is_ch_1_on
    /\ apu.sc1.dac_enabled
    /\ ~apu.sc1.trigger

\* C18: for every byte v, write(FF41, v) completes without aborting and
\* changes only the select bits 6..3 of STAT, to those of v; bits 7 and
\* 2..0 of v are dropped (SpecStat).
C18_StatWriteMask ==
    [][\A v \in StatVals :
          PPUWrite(65345, v) =>
              /\ ~panicked'
              /\ ppu' = [ppu EXCEPT !.lcds = BitAnd(v, 120)]]_vars

\* C19: the PPU never aborts on data: whatever VRAM (both banks), OAM and
\* the registers hold after accepted bus writes, in mono and in color
\* mode, every cycle call completes, the scanline render on Draw -> HBlank
\* included (SpecRender).
C19_CycleNeverAborts == [][IsCycleCall => ~panicked']_vars

\* palette entry 3 as set_rgb stores it
Entry3 == <<8, 41, 85, 255>>

\* C20: in mono mode, from power-on with LCDC = 0x80, BGP = 0xFC and VRAM
\* all zero, after one frame of 70224 T-cycles every framebuffer pixel is
\* palette entry 3 = (8, 41, 85, 255) and VBLANK was raised exactly once
\* (SpecBlank).
C20_BlankFrame ==
    host.elapsed = FrameCycles =>
        /\ \A px \in Pixels : ppu.frame_buffer[px] = Entry3
        /\ host.vblanks = 1

\* what the code leaves after those 70224 T-cycles: no pixel written, LY
\* still on a visible line, VBLANK not raised yet
BlankFrameOfCode ==
    host.elapsed = FrameCycles =>
        /\ \A px \in Pixels : ppu.frame_buffer[px] = <<0, 0, 0, 0>>
        /\ host.vblanks = 0
        /\ "V_BLANK" \notin ppu.interrupts
        /\ ppu.ly < SCREEN_H

\* C21: for a ROM-only cartridge every write is a no-op: after any writes
\* to any addresses, a read of each address of 0000-7FFF that the image
\* has returns the image's byte at that address (SpecRom).
C21_RomWritesNoOp ==
    \A a \in RomAddrs :
        a < cart.image.len =>
            ROMOnly_read(cart.mbc, a) = RomIndex(cart.image, a)

\* a byte other than the image's was written to an address of the image,
\* and the bus has read that address back since
C21_Witness ==
    /\ cart.wrote # <<>>
    /\ cart.wrote[1] < cart.image.len
    /\ cart.wrote[2] # RomIndex(cart.image, cart.wrote[1])
    /\ cart.got # <<>>
    /\ cart.got[1] = cart.wrote[1]
    /\ cart.got[2] = RomIndex(cart.image, cart.wrote[1])

\* the volume an envelope of the given direction and pace makes of v after
\* k ticks of the 64 Hz clock
Enveloped(v, up, pace, k) ==
    LET steps == IF pace = 0 THEN 0 ELSE k \div pace
    IN IF up THEN (IF v + steps > 15 THEN 15 ELSE v + steps)
       ELSE (IF v - steps < 0 THEN 0 ELSE v - steps)

\* C22: under cycle, with envelope_pace = p > 0 channel 1's volume moves by
\* 1 every p ticks of the 64 Hz envelope clock, up if the envelope is
\* positive and down otherwise, saturating at 15 and 0; with p = 0 it never
\* changes (SpecEnvelope).
C22_Envelope ==
    apu.sc1.volume =
        Enveloped(env_hist.volume, apu.sc1.positive_envelope,
                  apu.sc1.envelope_pace, env_hist.elapsed \div EnvelopeTick)

\* what the code does: cycle never changes the volume
EnvelopeOfCode == apu.sc1.volume = env_hist.volume

\* a cycle call that makes Draw -> HBlank, the transition that renders the
\* scanline LY
RendersLine == IsCycleCall /\ ppu.ppu_mode = "Draw" /\ ppu'.ppu_mode = "HBlank"

\* the struct as the renderer finds it: cycle has set the mode to HBlank
\* before it renders (ppu.rs:150), which opens OAM to the renderer's reads
AtRender(p) == [p EXCEPT !.ppu_mode = "HBlank"]

\* the scanline's values with the row of column x as the specification
\* has it: the window's row inside the window, the background's outside
RowPerColumn(p, x) ==
    LET l == bg_line(p)
    IN [l EXCEPT !.py = IF bg_in_window(l, x) THEN WrapSub(p.ly, p.wy)
                        ELSE WrapAdd(p.sy, p.ly)]

\* C23: on a scanline where the window is enabled and WY <= LY, a pixel
\* left of the window (x < WX - 7) is fetched from background row
\* (SY + LY) mod 256, and only the pixels with x >= WX - 7 from window row
\* LY - WY: the rendered pixel is the one found at that row (SpecWindow).
C23_WindowRow ==
    [][RendersLine /\ bg_line(ppu).in_window_y /\ ppu.ly \in ScreenRows
          => \A x \in ScreenCols :
                 ppu'.frame_buffer[<<x, ppu.ly>>] =
                     rgba(bg_fetch(RowPerColumn(ppu, x), ppu, x).rgb)]_vars

\* what the code does: one row per scanline, the window's whenever the
\* window is enabled and WY <= LY, for the pixels left of the window too
WindowRowOfCode ==
    [][RendersLine /\ ppu.ly \in ScreenRows
          => \A x \in ScreenCols :
                 ppu'.frame_buffer[<<x, ppu.ly>>] =
                     rgba(bg_fetch(bg_line(ppu), ppu, x).rgb)]_vars

Priorities == {"Color0", "Priority", "Normal"}

\* when the background wins over a sprite pixel, as the specification has it
BackgroundWins(mode, lcdc, bits, prio) ==
    IF mode = "Color" /\ ~Contains(lcdc, WINDOW_PRIORITY)
    THEN prio = "Priority"
    ELSE prio = "Priority" \/ (Contains(bits, PRIORITY) /\ prio # "Color0")

\* sprite 0 has a pixel of a colour other than 0 for column c of the
\* scanline
SpriteOver(p, c) ==
    LET h == sprite_head(p, 0)
    IN /\ ~h.off_line
       /\ WrapSub(c, h.px) < 8
       /\ sprite_fetch(p, h, WrapSub(c, h.px)).color # 0

\* the pixel of column c under the sprites: the background's if the
\* scanline's background is drawn, else what the frame buffer held
Under(p, c) ==
    IF p.mode = "Color" \/ Contains(p.lcdc, WINDOW_PRIORITY)
    THEN rgba(bg_fetch(bg_line(p), p, c).rgb)
    ELSE p.frame_buffer[<<c, p.ly>>]

\* C24: a sprite pixel of a colour other than 0 is skipped exactly when, in
\* colour mode with LCDC bit 0 clear, bgprio[x] is Priority, and otherwise
\* exactly when bgprio[x] is Priority or the sprite's PRIORITY attribute is
\* set and bgprio[x] is not Color0, for every mode, LCDC bit 0, attribute
\* and bgprio value; in mono mode, where a kept pixel is drawn, the
\* rendered column holds the sprite's colour exactly when the pixel is
\* kept (SpecScene, where sprite 0 alone reaches the columns it is on).
C24_SpritePriority ==
    [][/\ \A prio \in Priorities : \A bits \in {0, PRIORITY} :
              sprite_skip(ppu, prio, bits)
                  = BackgroundWins(ppu.mode, ppu.lcdc, bits, prio)
       /\ RendersLine /\ Contains(ppu.lcdc, OBJ_ENABLE)
             /\ ppu.mode = "Classic" /\ ppu.ly \in ScreenRows
          => \A c \in ScreenCols :
                 SpriteOver(AtRender(ppu), c) =>
                     ppu'.frame_buffer[<<c, ppu.ly>>] =
                         IF BackgroundWins(ppu.mode, ppu.lcdc,
                                           sprite_head(AtRender(ppu), 0).bits,
                                           ppu'.bgprio[c])
                         THEN Under(ppu, c)
                         ELSE rgba(sprite_rgb(AtRender(ppu),
                                              sprite_head(AtRender(ppu), 0),
                                              c))
      ]_vars

\* a rendered scanline of mono mode on which the background, of a colour
\* other than 0, has won over sprite 0, whose PRIORITY attribute is set
C24_Witness ==
    /\ ppu.mode = "Classic"
    /\ ppu.ppu_mode = "HBlank"
    /\ ppu.ly = 1
    /\ Contains(ppu.lcdc, OBJ_ENABLE) /\ Contains(ppu.lcdc, WINDOW_PRIORITY)
    /\ SpriteOver(ppu, 0)
    /\ Contains(sprite_head(ppu, 0).bits, PRIORITY)
    /\ ppu.bgprio[0] = "Normal"
    /\ ppu.frame_buffer[<<0, 1>>] = rgba(grey_to_l(ppu.bgp, 1))

\* C25: the BG-priority line buffer is rebuilt on every rendered scanline:
\* when sprites are composited on Draw -> HBlank, every bgprio[x] they
\* consult was computed from the background of that scanline, also in mono
\* mode with LCDC bit 0 clear (SpecScene).
C25_BgprioRebuilt ==
    [][RendersLine /\ Contains(ppu.lcdc, OBJ_ENABLE)
          => \A c \in ScreenCols :
                 SpriteOver(AtRender(ppu), c) =>
                     ppu'.bgprio[c] = bg_fetch(bg_line(ppu), ppu, c).prio]_vars

\* what the code does: the buffer is rebuilt on the scanlines whose
\* background is drawn, and left as it was on the others
BgprioOfCode ==
    [][RendersLine
          => \A c \in ScreenCols :
                 ppu'.bgprio[c] =
                     IF ppu.mode = "Color"
                            \/ Contains(ppu.lcdc, WINDOW_PRIORITY)
                     THEN bg_fetch(bg_line(ppu), ppu, c).prio
                     ELSE ppu.bgprio[c]]_vars

\* the mode changes cycle makes
ModeSteps ==
    {<<"OAMScan", "Draw">>, <<"Draw", "HBlank">>, <<"HBlank", "OAMScan">>,
     <<"HBlank", "VBlank">>, <<"VBlank", "OAMScan">>}

\* the cycles a call takes off the counter: those of the mode or line it
\* ends (ppu.rs:141, 168, 190)
Consumed(mode, next_mode, ly, next_ly) ==
    IF mode = "OAMScan" /\ next_mode = "Draw" THEN OAMScanCycles
    ELSE IF mode \in {"HBlank", "VBlank"}
              /\ (next_mode # mode \/ next_ly # ly) THEN LineCycles
    ELSE 0

\* C26: one cycle(n) call makes at most one mode change and moves LY by at
\* most one line (on to the next, or back to 0 at the end of VBlank),
\* however large n is; the mode changes follow OAMScan -> Draw -> HBlank ->
\* (OAMScan | VBlank) and VBlank -> OAMScan; and the cycles beyond the
\* mode's threshold stay in the cycle counter for later calls (SpecBurst).
C26_OneStepPerCall ==
    [][\A n \in CycleSteps \cup BurstSteps :
           Burst(n) /\ LcdOn =>
               /\ \/ ppu'.ppu_mode = ppu.ppu_mode
                  \/ <<ppu.ppu_mode, ppu'.ppu_mode>> \in ModeSteps
               /\ \/ ppu'.ly = ppu.ly
                  \/ ppu'.ly = ppu.ly + 1
                  \/ /\ ppu'.ly = 0
                     /\ ppu.ppu_mode = "VBlank"
                     /\ ppu'.ppu_mode = "OAMScan"
               /\ ppu'.cycle_count =
                      ppu.cycle_count + n
                          - Consumed(ppu.ppu_mode, ppu'.ppu_mode,
                                     ppu.ly, ppu'.ly)]_vars

\* a call of a whole frame's cycles has only ended the first OAM scan: the
\* rest of its cycles is in the counter
C26_Witness ==
    /\ ppu.ppu_mode = "Draw"
    /\ ppu.ly = 0
    /\ ppu.cycle_count = FrameCycles - OAMScanCycles

FrameBufferLen == 4 * SCREEN_W * SCREEN_H

\* the columns the renderer writes on the scanline: all of them if the
\* background is drawn, and those the sprites on the scanline reach
Targets(p) ==
    (IF p.mode = "Color" \/ Contains(p.lcdc, WINDOW_PRIORITY)
     THEN 0..(SCREEN_W - 1) ELSE {})
    \cup (IF Contains(p.lcdc, OBJ_ENABLE)
          THEN UNION {sprite_targets(AtRender(p), i) : i \in 0..39}
          ELSE {})

\* C27: a scanline is rendered (Draw -> HBlank) only with LY in 0..143;
\* every frame buffer byte the background or the sprites write is at
\* LY * 640 + x * 4 + k with x < 160 and k < 4, inside the buffer of
\* 160 * 144 * 4 bytes, and no pixel of another scanline or column
\* changes; a cycle call that does not make Draw -> HBlank leaves the
\* frame buffer as it was (SpecScene).
C27_FrameBufferBounds ==
    [][IsCycleCall =>
          IF RendersLine
          THEN /\ ppu.ly \in 0..LastVisibleLine
               /\ \A x \in Targets(ppu) :
                      /\ x < SCREEN_W
                      /\ set_rgb_offset(ppu, x) + 3 < FrameBufferLen
               /\ \A px \in Pixels :
                      ppu'.frame_buffer[px] # ppu.frame_buffer[px]
                          => px[2] = ppu.ly /\ px[1] \in Targets(ppu)
          ELSE ppu'.frame_buffer = ppu.frame_buffer]_vars

\* a rendered scanline of mono mode on which sprite 1, which lies across
\* the right edge of the screen, has written the last column
C27_Witness ==
    /\ ppu.mode = "Classic"
    /\ ppu.ppu_mode = "HBlank"
    /\ ppu.ly = 1
    /\ sprite_head(ppu, 1).px = 156
    /\ ppu.frame_buffer[<<159, 1>>] = rgba(grey_to_l(ppu.op0, 1))

====
